---- MODULE Spec2Model ----
(***************************************************************************)
(* Model of proj2_nps.py: the persistent request cache (load_cache,        *)
(* save_cache, construct_unique_key, make_url_request_using_cache,         *)
(* make_api_request_using_cache) and the processes that use it.            *)
(*                                                                         *)
(* A Python str is a sequence of one-character strings.  A Python/JSON     *)
(* value is a record [t, s, n, keys, items]:                               *)
(*   t = "str"   the string s                                              *)
(*   t = "int"   the non-negative integer n                                *)
(*   t = "list"  the list items                                            *)
(*   t = "dict"  the dict whose i-th inserted key is keys[i], with value   *)
(*               items[i] (a Python dict keeps insertion order)            *)
(***************************************************************************)
EXTENDS Integers, Sequences, FiniteSets, TLC

VARIABLES
    file,       \* the durable file cache.json: [status, data]
    stores,     \* the dict objects of the running process: CACHE and a caller's own dict
    pc,         \* position of the running process
    call,       \* the call in flight: its arguments and locals
    last,       \* what the last finished call did and returned
    net,        \* number of network requests issued (requests.get)
    slept,      \* number of time.sleep(1) delays taken
    returned,   \* page calls that returned in this process: {<<store, url, content>>}
    durable,    \* entries whose insertion into CACHE had completed: {<<key, value>>}
    kin,        \* inputs of the pure-function checks
    kout,       \* their outputs
    sess        \* the interactive session of __main__: its locals and what it last did

vars == <<file, stores, pc, call, last, net, slept, returned, durable, kin, kout, sess>>

-----------------------------------------------------------------------------
(* Bounds *)

\* longest parameter mapping handed to construct_unique_key
MaxParams == 2
\* most entries of a store handed to save_cache in the persistence checks
MaxStoreLen == 2
\* most network requests issued over a behaviour
MaxNet == 2

-----------------------------------------------------------------------------
(* Python values *)

JStr(s) == [t |-> "str", s |-> s, n |-> 0, keys |-> <<>>, items |-> <<>>]
JInt(n) == [t |-> "int", s |-> <<>>, n |-> n, keys |-> <<>>, items |-> <<>>]
JList(items) == [t |-> "list", s |-> <<>>, n |-> 0, keys |-> <<>>, items |-> items]
JDict(keys, items) == [t |-> "dict", s |-> <<>>, n |-> 0, keys |-> keys, items |-> items]

\* the dict literal {}
EmptyDict == JDict(<<>>, <<>>)

\* k in d
Has(d, k) == \E i \in 1..Len(d.keys) : d.keys[i] = k

\* d[k], for k in d
Get(d, k) == d.items[CHOOSE i \in 1..Len(d.keys) : d.keys[i] = k]

\* d[k] = v: a present key keeps its position, a new key is appended
DictSet(d, k, v) ==
    IF Has(d, k)
    THEN JDict(d.keys, [i \in 1..Len(d.keys) |-> IF d.keys[i] = k THEN v ELSE d.items[i]])
    ELSE JDict(Append(d.keys, k), Append(d.items, v))

\* a == b for two Python values: dicts compare as mappings, whatever the
\* insertion order; everything else compares structurally
RECURSIVE PyEq(_, _)
PyEq(a, b) ==
    IF a.t # b.t THEN FALSE
    ELSE IF a.t = "dict"
    THEN /\ Len(a.keys) = Len(b.keys)
         /\ \A i \in 1..Len(a.keys) :
                Has(b, a.keys[i]) /\ PyEq(a.items[i], Get(b, a.keys[i]))
    ELSE IF a.t = "list"
    THEN /\ Len(a.items) = Len(b.items)
         /\ \A i \in 1..Len(a.items) : PyEq(a.items[i], b.items[i])
    ELSE a = b

-----------------------------------------------------------------------------
(* str(n) and int(s) for non-negative integers *)

Digits == <<"0", "1", "2", "3", "4", "5", "6", "7", "8", "9">>

IsDigit(c) == \E d \in 1..10 : Digits[d] = c

DigitVal(c) == (CHOOSE d \in 1..10 : Digits[d] = c) - 1

RECURSIVE IntToStr(_)
IntToStr(n) ==
    IF n < 10 THEN <<Digits[n + 1]>>
    ELSE Append(IntToStr(n \div 10), Digits[(n % 10) + 1])

\* what an f-string puts for {v}: a str as it is, an int in decimal
Format(v) == IF v.t = "int" THEN IntToStr(v.n) ELSE v.s

-----------------------------------------------------------------------------
(* construct_unique_key *)

\* the parameter name 'key'
KeyParam == <<"k", "e", "y">>

\* the parameters in iteration (insertion) order, the first i - 1 already done
RECURSIVE KeyLoop(_, _, _)
KeyLoop(params, i, key) ==
    IF i > Len(params.keys) THEN key
    ELSE KeyLoop(params, i + 1,
                 IF params.keys[i] # KeyParam
                 THEN key \o <<"_">> \o params.keys[i] \o <<"_">> \o Format(params.items[i])
                 ELSE key)

\* a loop that forgets to leave out the credential
RECURSIVE KeyLoopWithCredential(_, _, _)
KeyLoopWithCredential(params, i, key) ==
    IF i > Len(params.keys) THEN key
    ELSE KeyLoopWithCredential(params, i + 1,
             key \o <<"_">> \o params.keys[i] \o <<"_">> \o Format(params.items[i]))

construct_unique_key_keeps_key(baseurl, params) == KeyLoopWithCredential(params, 1, baseurl)

construct_unique_key(baseurl, params) == KeyLoop(params, 1, baseurl)

-----------------------------------------------------------------------------
(* json.dumps: the text Python writes for a value *)

EscapeChar(c) ==
    CASE c = "\"" -> <<"\\", "\"">>
      [] c = "\\" -> <<"\\", "\\">>
      [] c = "\n" -> <<"\\", "n">>
      [] c = "\t" -> <<"\\", "t">>
      [] OTHER    -> <<c>>

RECURSIVE EscapeRange(_, _, _)
\* the characters lo..hi of s, escaped; halves keep the evaluation shallow
EscapeRange(s, lo, hi) ==
    IF lo > hi THEN <<>>
    ELSE IF lo = hi THEN EscapeChar(s[lo])
    ELSE EscapeRange(s, lo, (lo + hi) \div 2) \o EscapeRange(s, (lo + hi) \div 2 + 1, hi)

\* the characters of s from the i-th on, escaped
EscapeFrom(s, i) ==
    IF \A k \in i..Len(s) : s[k] \notin {"\"", "\\", "\n", "\t"}
    THEN SubSeq(s, i, Len(s))
    ELSE EscapeRange(s, i, Len(s))

Quote(s) == <<"\"">> \o EscapeFrom(s, 1) \o <<"\"">>

RECURSIVE json_dumps(_)
RECURSIVE DumpItems(_, _)
RECURSIVE DumpPairs(_, _)

DumpItems(items, i) ==
    IF i > Len(items) THEN <<>>
    ELSE (IF i > 1 THEN <<",", " ">> ELSE <<>>) \o json_dumps(items[i]) \o DumpItems(items, i + 1)

DumpPairs(d, i) ==
    IF i > Len(d.keys) THEN <<>>
    ELSE (IF i > 1 THEN <<",", " ">> ELSE <<>>)
         \o Quote(d.keys[i]) \o <<":", " ">> \o json_dumps(d.items[i]) \o DumpPairs(d, i + 1)

json_dumps(v) ==
    CASE v.t = "str"  -> Quote(v.s)
      [] v.t = "int"  -> IntToStr(v.n)
      [] v.t = "list" -> <<"[">> \o DumpItems(v.items, 1) \o <<"]">>
      [] v.t = "dict" -> <<"{">> \o DumpPairs(v, 1) \o <<"}">>

-----------------------------------------------------------------------------
(* json.loads: a parser of the text; a result is [ok, v, next], next the   *)
(* position after the value.  Of JSON the model reads strings, non-negative*)
(* integers, arrays and objects; floats, signs, true/false/null and the    *)
(* \b and \u escapes lie outside the model's values and are taken as       *)
(* errors.                                                                 *)

ParseFail == [ok |-> FALSE, v |-> EmptyDict, next |-> 0]

ParseOk(v, next) == [ok |-> TRUE, v |-> v, next |-> next]

IsWs(c) == c \in {" ", "\n", "\t", "\r"}

RECURSIVE SkipWs(_, _)
SkipWs(txt, i) == IF i <= Len(txt) /\ IsWs(txt[i]) THEN SkipWs(txt, i + 1) ELSE i

\* txt[i - 1] was the opening quote; acc is the string read so far
\* the backslashes that end just before position j of a string body that
\* starts at i
Backslashes(txt, i, j) ==
    IF j <= i \/ txt[j - 1] # "\\" THEN 0
    ELSE Cardinality({k \in i..(j - 1) : \A m \in k..(j - 1) : txt[m] = "\\"})

\* position j follows the backslash that opens an escape
Escaped(txt, i, j) == Backslashes(txt, i, j) % 2 = 1

\* what the character at j stands for: [ok, s]
DecodeChar(txt, i, j) ==
    IF Escaped(txt, i, j)
    THEN IF txt[j] \in {"\"", "\\", "/"} THEN [ok |-> TRUE, s |-> <<txt[j]>>]
         ELSE IF txt[j] = "n" THEN [ok |-> TRUE, s |-> <<"\n">>]
         ELSE IF txt[j] = "t" THEN [ok |-> TRUE, s |-> <<"\t">>]
         ELSE IF txt[j] = "r" THEN [ok |-> TRUE, s |-> <<"\r">>]
         ELSE [ok |-> FALSE, s |-> <<>>]
    ELSE IF txt[j] = "\\" THEN [ok |-> j + 1 <= Len(txt), s |-> <<>>]
    ELSE IF txt[j] \in {"\n", "\t", "\r"} THEN [ok |-> FALSE, s |-> <<>>]
    ELSE [ok |-> TRUE, s |-> <<txt[j]>>]

RECURSIVE DecodeRange(_, _, _, _)
\* the characters lo..hi of the body decoded; halves keep the evaluation shallow
DecodeRange(txt, i, lo, hi) ==
    IF lo > hi THEN [ok |-> TRUE, s |-> <<>>]
    ELSE IF lo = hi THEN DecodeChar(txt, i, lo)
    ELSE LET l == DecodeRange(txt, i, lo, (lo + hi) \div 2)
             r == DecodeRange(txt, i, (lo + hi) \div 2 + 1, hi)
         IN  [ok |-> l.ok /\ r.ok, s |-> l.s \o r.s]

\* a string body from i on, after the text acc: up to the first quote that
\* no backslash escapes
ScanString(txt, i, acc) ==
    LET closes == {j \in i..Len(txt) : txt[j] = "\"" /\ ~Escaped(txt, i, j)}
        close == CHOOSE j \in closes : \A k \in closes : j <= k
        body == DecodeRange(txt, i, i, close - 1)
    IN  IF closes = {} THEN ParseFail
        ELSE IF body.ok THEN ParseOk(JStr(acc \o body.s), close + 1)
        ELSE ParseFail

\* txt[i - 1] was a digit 1..9 (or more digits); n is the number read so far
RECURSIVE ScanNumber(_, _, _)
ScanNumber(txt, i, n) ==
    IF i <= Len(txt) /\ IsDigit(txt[i])
    THEN ScanNumber(txt, i + 1, 10 * n + DigitVal(txt[i]))
    ELSE ParseOk(JInt(n), i)

RECURSIVE ParseValue(_, _)
RECURSIVE ParseElems(_, _, _)
RECURSIVE ParseMembers(_, _, _)

\* the elements of an array from position i on; acc holds those read
ParseElems(txt, i, acc) ==
    LET r == ParseValue(txt, i)
        j == SkipWs(txt, r.next)
    IN  IF ~r.ok \/ j > Len(txt) THEN ParseFail
        ELSE IF txt[j] = "," THEN ParseElems(txt, j + 1, Append(acc, r.v))
        ELSE IF txt[j] = "]" THEN ParseOk(JList(Append(acc, r.v)), j + 1)
        ELSE ParseFail

\* the members of an object from position i on; d holds those read
ParseMembers(txt, i, d) ==
    LET i1 == SkipWs(txt, i)
        k  == IF i1 <= Len(txt) /\ txt[i1] = "\"" THEN ScanString(txt, i1 + 1, <<>>) ELSE ParseFail
        j  == SkipWs(txt, k.next)
        r  == IF k.ok /\ j <= Len(txt) /\ txt[j] = ":" THEN ParseValue(txt, j + 1) ELSE ParseFail
        e  == SkipWs(txt, r.next)
    IN  IF ~r.ok \/ e > Len(txt) THEN ParseFail
        ELSE IF txt[e] = "," THEN ParseMembers(txt, e + 1, DictSet(d, k.v.s, r.v))
        ELSE IF txt[e] = "}" THEN ParseOk(DictSet(d, k.v.s, r.v), e + 1)
        ELSE ParseFail

ParseValue(txt, i0) ==
    LET i == SkipWs(txt, i0)
    IN  IF i > Len(txt) THEN ParseFail
        ELSE IF txt[i] = "\"" THEN ScanString(txt, i + 1, <<>>)
        ELSE IF txt[i] = "0" THEN ParseOk(JInt(0), i + 1)
        ELSE IF IsDigit(txt[i]) THEN ScanNumber(txt, i + 1, DigitVal(txt[i]))
        ELSE IF txt[i] = "["
        THEN LET j == SkipWs(txt, i + 1)
             IN  IF j <= Len(txt) /\ txt[j] = "]" THEN ParseOk(JList(<<>>), j + 1)
                 ELSE ParseElems(txt, j, <<>>)
        ELSE IF txt[i] = "{"
        THEN LET j == SkipWs(txt, i + 1)
             IN  IF j <= Len(txt) /\ txt[j] = "}" THEN ParseOk(EmptyDict, j + 1)
                 ELSE ParseMembers(txt, j, EmptyDict)
        ELSE ParseFail

\* json.loads(txt): [ok, v]; ok is FALSE where json.loads raises
json_loads(txt) ==
    LET r == ParseValue(txt, 1)
    IN  IF r.ok /\ SkipWs(txt, r.next) = Len(txt) + 1
        THEN [ok |-> TRUE, v |-> r.v]
        ELSE [ok |-> FALSE, v |-> EmptyDict]

-----------------------------------------------------------------------------
(* load_cache and save_cache on the durable file.  The file is              *)
(* [status, data]: status "absent" (no such file), "unreadable" (open()    *)
(* raises) or "ok", data its text.                                         *)

NoFile == [status |-> "absent", data |-> <<>>]

TextFile(txt) == [status |-> "ok", data |-> txt]

\* a loader that takes the first JSON value of the text and ignores the rest
load_cache_lenient(f) ==
    IF f.status # "ok" THEN EmptyDict
    ELSE LET r == ParseValue(f.data, 1)
         IN  IF r.ok THEN r.v ELSE EmptyDict

\* lines 162-169: whatever open, read or json.loads raises is swallowed
load_cache(f) ==
    IF f.status # "ok" THEN EmptyDict
    ELSE LET r == json_loads(f.data)
         IN  IF r.ok THEN r.v ELSE EmptyDict

\* line 184: open(CACHE_FILE_NAME, 'w') creates or truncates the file
OpenForWrite(f) == TextFile(<<>>)

\* a save that runs before the insertion: the newest entry is left out
WrittenStale(cache) ==
    json_dumps(JDict(SubSeq(cache.keys, 1, Len(cache.keys) - 1),
                     SubSeq(cache.items, 1, Len(cache.items) - 1)))

\* lines 185-187: the text that is in the file once close() has returned
Written(cache) == json_dumps(cache)

\* a save that opens the file with 'a': the text is added to what is there
save_cache_append(f, cache) ==
    TextFile((IF f.status = "ok" THEN f.data ELSE <<>>) \o Written(cache))

\* the whole of save_cache(cache)
save_cache(f, cache) == TextFile(Written(cache))

\* what a kill between write() and close() can leave of the buffered text:
\* nothing, a part of it, or all of it (one cut stands for every partial write)
Prefixes(txt) == {SubSeq(txt, 1, n) : n \in {0, Len(txt) \div 2, Len(txt)}}

-----------------------------------------------------------------------------
(* The world of the cache machine *)

StoreNames == {"CACHE", "other"}

PageUrls == {<<"p">>, <<"m">>}

BaseUrls == {<<"m">>}

\* bodies a page request can answer with
Texts == {<<"a">>, <<"<", "\"", "\\", "\n">>}

\* decoded bodies an API request can answer with
Responses ==
    {JDict(<< <<"r">> >>, <<JList(<<>>)>>),
     JDict(<< <<"r">> >>, <<JList(<<JStr(<<"x">>), JInt(10)>>)>>)}

\* parameter dicts the machine calls the API with
ApiParams ==
    {JDict(<<KeyParam>>, <<JStr(<<"s">>)>>),
     JDict(<<KeyParam, <<"o">>>>, <<JStr(<<"s">>), JStr(<<"1">>)>>),
     JDict(<< <<"o">>, KeyParam>>, <<JInt(1), JStr(<<"t">>)>>)}

\* what cache.json may hold when the first process starts
InitFiles ==
    {NoFile,
     TextFile(<<"{">>),
     save_cache(NoFile, JDict(<< <<"p">> >>, <<JStr(<<"a">>)>>))}

NoValue == JStr(<<>>)

\* no session runs (the cache functions are called directly)
NoSess == [state |-> "off", dict |-> EmptyDict, sites |-> <<>>, picked |-> {},
           input |-> <<>>, out |-> "none", header |-> <<>>, reqs |-> <<>>, saves |-> 0,
           failed |-> FALSE,
           before |-> [state |-> "off", sites |-> <<>>, picked |-> {}, keys |-> {}]]

NoCall == [op |-> "none", store |-> "CACHE", target |-> "CACHE", key |-> <<>>,
           resp |-> NoValue, buf |-> <<>>, trace |-> <<>>]

NoLast == [op |-> "none", store |-> "CACHE", target |-> "CACHE", key |-> <<>>,
           outcome |-> "none", ret |-> NoValue, trace |-> <<>>]

\* a call that ended without sleeping or fetching
Finished(op, s, target, key, outcome, ret) ==
    [op |-> op, store |-> s, target |-> target, key |-> key, outcome |-> outcome, ret |-> ret,
     trace |-> <<>>]

\* the call in flight ends: what it did (its sleeps and requests, in order) is kept
Ended(c, outcome, ret, trace) ==
    [Finished(c.op, c.store, c.target, c.key, outcome, ret) EXCEPT !.trace = trace]

\* the entries of a dict as a set of <<key, value>>
Entries(d) == {<<d.keys[i], d.items[i]>> : i \in 1..Len(d.keys)}

\* the completed insertions after key got value v
Completed(done, key, v) == {e \in done : e[1] # key} \cup {<<key, v>>}

\* the first content a page call on (s, url) returned stays on record
Recorded(ret, s, url, v) ==
    IF \E r \in ret : r[1] = s /\ r[2] = url THEN ret ELSE ret \cup {<<s, url, v>>}

\* line 322: CACHE = load_cache(), at import
StartedStores(f) == [CACHE |-> load_cache(f), other |-> EmptyDict]

Init ==
    /\ file \in InitFiles
    /\ stores = StartedStores(file)
    /\ pc = "idle"
    /\ call = NoCall
    /\ last = NoLast
    /\ net = 0
    /\ slept = 0
    /\ returned = {}
    /\ durable = Entries(load_cache(file))
    /\ kin = <<>>
    /\ kout = <<>>
    /\ sess = NoSess

-----------------------------------------------------------------------------
(* make_url_request_using_cache(url, cache) *)

\* a page path that inserts into the module's CACHE instead of its argument
UrlTargetGlobal(s) == "CACHE"

\* the dict the page path inserts into and saves: its argument (lines 212-213)
UrlTarget(s) == s

\* a page path that sleeps before it looks into the cache
UrlHitThrottled(url, s) ==
    /\ pc = "idle"
    /\ Has(stores[s], url)
    /\ slept' = slept + 1
    /\ last' = Finished("url", s, s, url, "hit", Get(stores[s], url))
    /\ returned' = Recorded(returned, s, url, Get(stores[s], url))
    /\ UNCHANGED <<file, stores, pc, call, net, durable, kin, kout, sess>>

\* lines 205-207
UrlHit(url, s) ==
    /\ pc = "idle"
    /\ Has(stores[s], url)
    /\ last' = Finished("url", s, s, url, "hit", Get(stores[s], url))
    /\ returned' = Recorded(returned, s, url, Get(stores[s], url))
    /\ UNCHANGED <<file, stores, pc, call, net, slept, durable, kin, kout, sess>>

\* a page miss that goes to the request with no delay
UrlMissNoSleep(url, s) ==
    /\ pc = "idle"
    /\ ~Has(stores[s], url)
    /\ net < MaxNet
    /\ slept < MaxNet
    /\ pc' = "url_get"
    /\ call' = [NoCall EXCEPT !.op = "url", !.store = s, !.target = UrlTarget(s), !.key = url]
    /\ UNCHANGED <<file, stores, last, net, slept, returned, durable, kin, kout, sess>>

\* lines 208-209 (net and slept are capped at MaxNet)
UrlMiss(url, s) ==
    /\ pc = "idle"
    /\ ~Has(stores[s], url)
    /\ net < MaxNet
    /\ slept < MaxNet
    /\ pc' = "url_sleep"
    /\ call' = [NoCall EXCEPT !.op = "url", !.store = s, !.target = UrlTarget(s), !.key = url]
    /\ UNCHANGED <<file, stores, last, net, slept, returned, durable, kin, kout, sess>>

\* line 210: time.sleep(1)
UrlSleep ==
    /\ pc = "url_sleep"
    /\ slept' = slept + 1
    /\ call' = [call EXCEPT !.trace = Append(@, "sleep")]
    /\ pc' = "url_get"
    /\ UNCHANGED <<file, stores, last, net, returned, durable, kin, kout, sess>>

\* line 211: requests.get(url) answers
UrlGet(text) ==
    /\ pc = "url_get"
    /\ net' = net + 1
    /\ call' = [call EXCEPT !.resp = JStr(text), !.trace = Append(@, "get")]
    /\ pc' = "url_store"
    /\ UNCHANGED <<file, stores, last, slept, returned, durable, kin, kout, sess>>

\* a failed request that leaves an empty body in the cache
UrlGetFailsCaching ==
    /\ pc = "url_get"
    /\ net' = net + 1
    /\ stores' = [stores EXCEPT ![call.target] = DictSet(@, call.key, JStr(<<>>))]
    /\ last' = Ended(call, "raised", NoValue, Append(call.trace, "get"))
    /\ call' = NoCall
    /\ pc' = "idle"
    /\ UNCHANGED <<file, slept, returned, durable, kin, kout, sess>>

\* line 211: requests.get(url) raises; nothing catches it
UrlGetFails ==
    /\ pc = "url_get"
    /\ net' = net + 1
    /\ last' = Ended(call, "raised", NoValue, Append(call.trace, "get"))
    /\ call' = NoCall
    /\ pc' = "idle"
    /\ UNCHANGED <<file, stores, slept, returned, durable, kin, kout, sess>>

\* line 212: cache[url] = response.text
UrlStore ==
    /\ pc = "url_store"
    /\ stores' = [stores EXCEPT ![call.target] = DictSet(@, call.key, call.resp)]
    /\ pc' = "save_open"
    /\ UNCHANGED <<file, call, last, net, slept, returned, durable, kin, kout, sess>>

-----------------------------------------------------------------------------
(* make_api_request_using_cache(baseurl, params, cache) *)

\* the dict the API path inserts into, saves and reads: the module's CACHE,
\* whatever its argument (lines 260, 261, 264)
ApiTarget(s) == "CACHE"

\* lines 257, 262-264: found in cache, read from CACHE
ApiHit(baseurl, params, s) ==
    LET unique_key == construct_unique_key(baseurl, params)
        t == ApiTarget(s)
    IN  /\ pc = "idle"
        /\ Has(stores[s], unique_key)
        /\ last' = IF Has(stores[t], unique_key)
                   THEN Finished("api", s, t, unique_key, "hit", Get(stores[t], unique_key))
                   ELSE Finished("api", s, t, unique_key, "raised", NoValue)
        /\ UNCHANGED <<file, stores, pc, call, net, slept, returned, durable, kin, kout, sess>>

\* lines 257-259 (net is capped at MaxNet)
ApiMiss(baseurl, params, s) ==
    LET unique_key == construct_unique_key(baseurl, params)
    IN  /\ pc = "idle"
        /\ ~Has(stores[s], unique_key)
        /\ net < MaxNet
        /\ pc' = "api_get"
        /\ call' = [NoCall EXCEPT !.op = "api", !.store = s, !.target = ApiTarget(s),
                                  !.key = unique_key]
        /\ UNCHANGED <<file, stores, last, net, slept, returned, durable, kin, kout, sess>>

\* line 260: CACHE[unique_key] = requests.get(baseurl, params).json()
ApiGet(resp) ==
    /\ pc = "api_get"
    /\ net' = net + 1
    /\ call' = [call EXCEPT !.resp = resp, !.trace = Append(@, "get")]
    /\ stores' = [stores EXCEPT ![call.target] = DictSet(@, call.key, resp)]
    /\ pc' = "save_open"
    /\ UNCHANGED <<file, last, slept, returned, durable, kin, kout, sess>>

\* line 260: requests.get or .json() raises; nothing catches it
ApiGetFails ==
    /\ pc = "api_get"
    /\ net' = net + 1
    /\ last' = Ended(call, "raised", NoValue, Append(call.trace, "get"))
    /\ call' = NoCall
    /\ pc' = "idle"
    /\ UNCHANGED <<file, stores, slept, returned, durable, kin, kout, sess>>

-----------------------------------------------------------------------------
(* save_cache(cache), step by step, and the return that follows it *)

\* line 184
SaveOpen ==
    /\ pc = "save_open"
    /\ file' = OpenForWrite(file)
    /\ pc' = "save_write"
    /\ UNCHANGED <<stores, call, last, net, slept, returned, durable, kin, kout, sess>>

\* lines 185-186: the text goes to the file object's buffer
SaveWrite ==
    /\ pc = "save_write"
    /\ call' = [call EXCEPT !.buf = Written(stores[call.target])]
    /\ pc' = "save_close"
    /\ UNCHANGED <<file, stores, last, net, slept, returned, durable, kin, kout, sess>>

\* line 187, then line 214 or 264: close() flushes, the call returns the entry
SaveClose ==
    LET v == Get(stores[call.target], call.key)
    IN  /\ pc = "save_close"
        /\ file' = TextFile(call.buf)
        /\ last' = Ended(call, "miss", v, call.trace)
        /\ returned' = IF call.op = "url" THEN Recorded(returned, call.store, call.key, v)
                       ELSE returned
        /\ durable' = Completed(durable, call.key, v)
        /\ call' = NoCall
        /\ pc' = "idle"
        /\ UNCHANGED <<stores, net, slept, kin, kout, sess>>

-----------------------------------------------------------------------------
(* The process dies (a kill, a power cut, an uncaught exception, exit) and  *)
(* the next run imports the module again.                                  *)

Crash ==
    /\ pc # "down"
    /\ file' \in IF pc = "save_close"
                 THEN {TextFile(t) : t \in Prefixes(call.buf)}
                 ELSE {file}
    /\ stores' = [CACHE |-> EmptyDict, other |-> EmptyDict]
    /\ pc' = "down"
    /\ call' = NoCall
    /\ last' = NoLast
    /\ returned' = {}
    /\ UNCHANGED <<net, slept, durable, kin, kout, sess>>

\* line 322
Start ==
    /\ pc = "down"
    /\ stores' = StartedStores(file)
    /\ pc' = "idle"
    /\ last' = Finished("load", "CACHE", "CACHE", <<>>, "loaded", NoValue)
    /\ UNCHANGED <<file, call, net, slept, returned, durable, kin, kout, sess>>

Next ==
    \/ \E url \in PageUrls, s \in StoreNames : UrlHit(url, s)
    \/ \E url \in PageUrls, s \in StoreNames : UrlMiss(url, s)
    \/ UrlSleep
    \/ \E text \in Texts : UrlGet(text)
    \/ UrlGetFails
    \/ UrlStore
    \/ \E b \in BaseUrls, p \in ApiParams, s \in StoreNames : ApiHit(b, p, s)
    \/ \E b \in BaseUrls, p \in ApiParams, s \in StoreNames : ApiMiss(b, p, s)
    \/ \E resp \in Responses : ApiGet(resp)
    \/ ApiGetFails
    \/ SaveOpen
    \/ SaveWrite
    \/ SaveClose
    \/ Crash
    \/ Start

Spec == Init /\ [][Next]_vars

\* the program as the claims about page fetches alone see it: only
\* make_url_request_using_cache is called
NextPages ==
    \/ \E url \in PageUrls, s \in StoreNames : UrlHit(url, s)
    \/ \E url \in PageUrls, s \in StoreNames : UrlMiss(url, s)
    \/ UrlSleep
    \/ \E text \in Texts : UrlGet(text)
    \/ UrlGetFails
    \/ UrlStore
    \/ SaveOpen
    \/ SaveWrite
    \/ SaveClose
    \/ Crash
    \/ Start

SpecPages == Init /\ [][NextPages]_vars

-----------------------------------------------------------------------------
(* Claims about the cache machine *)

\* a page call on (s, url) has returned in this process
HasReturned(s, url) == \E r \in returned : r[1] = s /\ r[2] = url

\* a page miss is under way: it sleeps, fetches, stores or saves
PageFetching == pc \in {"url_sleep", "url_get", "url_store"}
                \/ (pc \in {"save_open", "save_write", "save_close"} /\ call.op = "url")

\* C1: over page calls on one store, once a call for url has returned, a
\* later call with the same url and store starts no fetch and returns the
\* content the first call returned.
C1_PageFetchedOnce ==
    /\ PageFetching => ~HasReturned(call.store, call.key)
    /\ (last.op = "url" /\ last.outcome \in {"hit", "miss"})
          => <<last.store, last.key, last.ret>> \in returned

\* C1 witness: a second call on the caller's own dict, which started empty,
\* found what the first call had fetched
C1_Witness ==
    /\ last.op = "url" /\ last.outcome = "hit" /\ last.store = "other"
    /\ net > 0
    /\ <<"other", last.key, last.ret>> \in returned

\* C2 (as claimed): after an API miss has returned, the passed-in store holds
\* the returned value under the fingerprint.
C2_ApiMissStoredInPassedStore ==
    (last.op = "api" /\ last.outcome = "miss")
        => /\ Has(stores[last.store], last.key)
           /\ Get(stores[last.store], last.key) = last.ret

\* C3: when a miss call has returned, the file decodes to a mapping equal to
\* the in-memory store that received the entry, the new entry included.
C3_FileEqualsStoreAfterMiss ==
    (pc = "idle" /\ last.outcome = "miss")
        => LET r == json_loads(file.data)
           IN  /\ file.status = "ok"
               /\ r.ok
               /\ PyEq(r.v, stores[last.target])
               /\ Has(r.v, last.key)
               /\ Get(r.v, last.key) = last.ret

\* C3 witness: a second miss has returned, so the file holds two entries
C3_Witness ==
    /\ pc = "idle" /\ last.outcome = "miss"
    /\ Len(stores[last.target].keys) >= 2
    /\ PyEq(load_cache(file), stores[last.target])

\* C4 (as claimed): the store load_cache returns in the next run holds every
\* entry whose insertion had completed before the crash.
C4_LoadKeepsCompletedEntries ==
    (pc = "idle" /\ last.op = "load")
        => \A e \in durable : Has(stores["CACHE"], e[1]) /\ Get(stores["CACHE"], e[1]) = e[2]

\* C5: a step that is a cache hit changes neither the stores nor the file
\* nor the number of requests, and takes no delay.
C5_HitChangesNothing ==
    [][(pc = "idle" /\ pc' = "idle" /\ last'.outcome = "hit")
          => (stores' = stores /\ file' = file /\ net' = net /\ slept' = slept)]_vars

\* C5 witness: an API hit on an entry this process fetched
C5_Witness ==
    /\ pc = "idle" /\ last.op = "api" /\ last.outcome = "hit"
    /\ net > 0
    /\ <<last.key, last.ret>> \in durable

-----------------------------------------------------------------------------
(* construct_unique_key on its own: two parameter dicts for one base url   *)

ParamNames == {KeyParam, <<"a">>, <<"b">>}

ParamValues == {JStr(<<"1">>), JStr(<<"2">>), JStr(<<"1", "_", "b", "_", "1">>)}

\* the sequences over S of length n
RECURSIVE SeqsOfLen(_, _)
SeqsOfLen(S, n) ==
    IF n = 0 THEN {<<>>}
    ELSE {Append(q, x) : q \in SeqsOfLen(S, n - 1), x \in S}

NoRepeat(q) == \A i, j \in 1..Len(q) : i # j => q[i] # q[j]

\* the dicts of n entries with keys from K and values from V, in every
\* insertion order
DictsOfLen(K, V, n) ==
    {JDict(ks, vs) : ks \in {q \in SeqsOfLen(K, n) : NoRepeat(q)}, vs \in SeqsOfLen(V, n)}

ParamDicts == UNION {DictsOfLen(ParamNames, ParamValues, n) : n \in 0..MaxParams}

\* base urls to fingerprint: the API's, and one that ends like a parameter
KeyBases == BaseUrls \cup {<<"m", "_", "a">>}

NoOut == <<>>

InitKey ==
    /\ kin \in [base : KeyBases, p : ParamDicts, q : ParamDicts]
    /\ kout = NoOut
    /\ file = NoFile
    /\ stores = StartedStores(NoFile)
    /\ pc = "idle"
    /\ call = NoCall
    /\ last = NoLast
    /\ net = 0
    /\ slept = 0
    /\ returned = {}
    /\ durable = {}
    /\ sess = NoSess

\* both dicts are fingerprinted
Fingerprint ==
    /\ kout = NoOut
    /\ kout' = <<construct_unique_key(kin.base, kin.p), construct_unique_key(kin.base, kin.q)>>
    /\ UNCHANGED <<file, stores, pc, call, last, net, slept, returned, durable, kin, sess>>

NextKey == Fingerprint

SpecKey == InitKey /\ [][NextKey]_vars

\* the entries of d other than the one named 'key', in d's order
WithoutKey(d) ==
    LET keep == {i \in 1..Len(d.keys) : d.keys[i] # KeyParam}
        RECURSIVE Pick(_, _)
        Pick(i, acc) ==
            IF i > Len(d.keys) THEN acc
            ELSE Pick(i + 1, IF i \in keep
                             THEN JDict(Append(acc.keys, d.keys[i]), Append(acc.items, d.items[i]))
                             ELSE acc)
    IN  Pick(1, EmptyDict)

NameSet(d) == {d.keys[i] : i \in 1..Len(d.keys)}

\* C6 (as claimed): two dicts that are the same mapping, whatever their
\* insertion orders, have the same fingerprint.
C6_FingerprintIgnoresOrder ==
    (kout # NoOut /\ PyEq(kin.p, kin.q)) => kout[1] = kout[2]

\* C7: two dicts that differ only in the entry named 'key' (its value, or
\* whether it is there) have the same fingerprint.
C7_CredentialExcluded ==
    (kout # NoOut /\ WithoutKey(kin.p) = WithoutKey(kin.q)) => kout[1] = kout[2]

\* C7 witness: two fingerprinted dicts with another parameter and with
\* different credentials
C7_Witness ==
    /\ kout # NoOut
    /\ WithoutKey(kin.p) = WithoutKey(kin.q)
    /\ Len(WithoutKey(kin.p).keys) >= 1
    /\ Has(kin.p, KeyParam) /\ Has(kin.q, KeyParam)
    /\ Get(kin.p, KeyParam) # Get(kin.q, KeyParam)
    /\ kout[1] = kout[2]

\* C8 (as claimed): with the same parameter names, two dicts that differ in
\* the value of a parameter other than 'key' have different fingerprints.
C8_FingerprintsDistinct ==
    (/\ kout # NoOut
     /\ NameSet(kin.p) = NameSet(kin.q)
     /\ \E k \in NameSet(kin.p) \ {KeyParam} : Get(kin.p, k) # Get(kin.q, k))
        => kout[1] # kout[2]

-----------------------------------------------------------------------------
(* save_cache and load_cache on their own: a dict to save, a file to find  *)

StoreKeys == {<<"p">>, <<>>, <<"\"">>, <<"\\", "n">>}

StoreValues ==
    {JStr(<<>>), JStr(<<"<", "\"", "\\", "\n">>), JStr(<<"1">>), JInt(1), JInt(120),
     JList(<<>>), JDict(<< <<"r">> >>, <<JList(<<JStr(<<"x">>), JInt(0), EmptyDict>>)>>)}

SampleStores == UNION {DictsOfLen(StoreKeys, StoreValues, n) : n \in 0..MaxStoreLen}

\* a store the program wrote earlier
OldText == Written(JDict(<< <<"p">> >>, <<JStr(<<"a">>)>>))

\* texts json.loads raises on: nothing, a cut-off save, two saves in a row,
\* a missing colon, a trailing comma, bare words
CorruptTexts ==
    {<<>>,
     SubSeq(OldText, 1, Len(OldText) - 1),
     OldText \o OldText,
     <<"{", "\"", "p", "\"", " ", "1", "}">>,
     <<"{", "\"", "p", "\"", ":", " ", "1", ",", "}">>,
     <<"x">>}

\* [kind, f]: what is at the path of cache.json
SampleFiles ==
    {[kind |-> "absent", f |-> NoFile],
     [kind |-> "unreadable", f |-> [status |-> "unreadable", data |-> OldText]],
     [kind |-> "valid", f |-> TextFile(OldText)]}
    \cup {[kind |-> "corrupt", f |-> TextFile(t)] : t \in CorruptTexts}

Phase(name, v) == [phase |-> name, v |-> v]

InitPersist ==
    /\ kin \in [store : SampleStores, found : SampleFiles]
    /\ file = kin.found.f
    /\ kout = Phase("start", EmptyDict)
    /\ stores = [CACHE |-> EmptyDict, other |-> EmptyDict]
    /\ pc = "idle"
    /\ call = NoCall
    /\ last = NoLast
    /\ net = 0
    /\ slept = 0
    /\ returned = {}
    /\ durable = {}
    /\ sess = NoSess

\* save_cache(kin.store), the whole call
DoSave ==
    /\ kout.phase = "start"
    /\ file.status # "unreadable"
    /\ file' = save_cache(file, kin.store)
    /\ kout' = Phase("saved", EmptyDict)
    /\ UNCHANGED <<stores, pc, call, last, net, slept, returned, durable, kin, sess>>

\* load_cache(), the whole call: of the file as found, or after the save
DoLoad ==
    /\ kout.phase \in {"start", "saved"}
    /\ kout' = Phase(IF kout.phase = "saved" THEN "reloaded" ELSE "loaded", load_cache(file))
    /\ UNCHANGED <<file, stores, pc, call, last, net, slept, returned, durable, kin, sess>>

NextPersist == DoSave \/ DoLoad

SpecPersist == InitPersist /\ [][NextPersist]_vars

\* C9: save_cache(store) followed by load_cache() returns a store equal to
\* the original.
C9_SaveLoadRoundTrip ==
    kout.phase = "reloaded" => PyEq(kout.v, kin.store)

\* C9 witness: a round trip of a store with a structured value and a string
\* that needs escaping, over a file that held something else
C9_Witness ==
    /\ kout.phase = "reloaded"
    /\ kin.found.kind = "valid"
    /\ \E i \in 1..Len(kin.store.keys) : kin.store.items[i].t = "dict"
    /\ \E i \in 1..Len(kin.store.keys) : kin.store.items[i] = JStr(<<"<", "\"", "\\", "\n">>)
    /\ kout.v = kin.store

\* C10: load_cache of a missing, unreadable or unparsable file returns the
\* empty store, the same in each case.
C10_LoadOfBadFileIsEmpty ==
    (kout.phase = "loaded" /\ kin.found.kind \in {"absent", "unreadable", "corrupt"})
        => kout.v = EmptyDict

\* C10 witness: load_cache has returned on a file holding two saves in a row
C10_Witness ==
    /\ kout.phase = "loaded"
    /\ kin.found.kind = "corrupt"
    /\ file.data = OldText \o OldText
    /\ kout.v = EmptyDict

-----------------------------------------------------------------------------
(* More claims about the cache machine *)

\* C11: a request that fails on a miss (page or API) ends the call with the
\* exception after that one request, and changes neither the stores nor the
\* file: the fingerprint is still absent from the store the call was given.
C11_FailedFetchChangesNothing ==
    [][(pc \in {"url_get", "api_get"} /\ pc' = "idle" /\ last'.outcome = "raised")
          => /\ stores' = stores
             /\ file' = file
             /\ net' = net + 1
             /\ ~Has(stores'[last'.store], last'.key)]_vars

\* C11 witness: a page request has failed, and a call for the same url on
\* the same store is a miss again
C11_Witness ==
    /\ pc = "url_sleep"
    /\ last.op = "url" /\ last.outcome = "raised"
    /\ call.store = last.store /\ call.key = last.key
    /\ ~Has(stores[call.store], call.key)

\* C16: a page miss takes the delay once and then issues one request; an
\* API miss issues one request and takes no delay; a hit does neither; no
\* call sleeps or requests a second time.
C16_ThrottleBeforePageRequest ==
    /\ call.op = "url" => call.trace \in {<<>>, <<"sleep">>, <<"sleep", "get">>}
    /\ call.op = "api" => call.trace \in {<<>>, <<"get">>}
    /\ (call.op = "url" /\ pc \in {"url_store", "save_open", "save_write", "save_close"})
          => call.trace = <<"sleep", "get">>
    /\ (last.op = "url" /\ last.outcome \in {"miss", "raised"}) => last.trace = <<"sleep", "get">>
    /\ (last.op = "api" /\ last.outcome = "miss") => last.trace = <<"get">>
    /\ (last.op = "api" /\ last.outcome = "raised") => last.trace \in {<<>>, <<"get">>}
    /\ last.outcome = "hit" => last.trace = <<>>

\* C16 witness: a page miss has returned after one delay and one request
C16_Witness ==
    /\ pc = "idle" /\ last.op = "url" /\ last.outcome = "miss"
    /\ last.trace = <<"sleep", "get">>
    /\ slept >= 1 /\ net >= 1

\* C17 (as claimed): within a process no step removes a key from a store or
\* changes the value held under a key that is present.
C17_StoreIsAppendOnly ==
    [][(pc # "down" /\ pc' # "down")
          => \A s \in StoreNames : \A i \in 1..Len(stores[s].keys) :
                /\ Has(stores'[s], stores[s].keys[i])
                /\ Get(stores'[s], stores[s].keys[i]) = stores[s].items[i]]_vars

\* C18 (as claimed): an API call never returns a raw text that a page fetch
\* stored (every API response is a dict).
C18_ApiNeverReturnsPageText ==
    (last.op = "api" /\ last.outcome \in {"hit", "miss"}) => last.ret.t # "str"

-----------------------------------------------------------------------------
(* The web the session reads.  A page is its url, the body the server      *)
(* sends, and what BeautifulSoup finds in that body.                       *)

Nps == <<"h", "t", "t", "p", "s", ":", "/", "/", "w", "w", "w", ".", "n", "p", "s", ".", "g", "o", "v">>

\* line 59
IndexUrl == Nps \o <<"/", "i", "n", "d", "e", "x", ".", "h", "t", "m">>

\* line 149
PlacesBase == <<"h", "t", "t", "p", ":", "/", "/", "w", "w", "w", ".", "m", "a", "p", "q", "u", "e", "s", "t", "a", "p", "i", ".", "c", "o", "m", "/", "s", "e", "a", "r", "c", "h", "/", "v", "2", "/", "r", "a", "d", "i", "u", "s">>

\* secrets.API_KEY
ApiKey == <<"K", "1">>

\* an element the page may lack: [has, text]
Found(text) == [has |-> TRUE, text |-> text]
Missing == [has |-> FALSE, text |-> <<>>]

\* the <li> entries of the index page's menu: text and href (lines 61-64)
IndexMenu ==
    <<[text |-> <<"M", "i">>, href |-> <<"/", "s", "t", "a", "t", "e", "/", "m", "i", "/", "i", "n", "d", "e", "x", ".", "h", "t", "m">>],
      [text |-> <<"W", "y">>, href |-> <<"/", "s", "t", "a", "t", "e", "/", "w", "y", "/", "i", "n", "d", "e", "x", ".", "h", "t", "m">>]>>

IndexHtml == <<"<", "u", "l", ">">>

\* the state pages: body, and the hrefs of the parks listed (lines 119-122)
StatePages ==
    <<[href |-> <<"/", "s", "t", "a", "t", "e", "/", "m", "i", "/", "i", "n", "d", "e", "x", ".", "h", "t", "m">>, html |-> <<"<", "m", "i", ">">>, parks |-> <<<<"/", "a", "/">>, <<"/", "b", "/">>, <<"/", "c", "/">>>>],
      [href |-> <<"/", "s", "t", "a", "t", "e", "/", "w", "y", "/", "i", "n", "d", "e", "x", ".", "h", "t", "m">>, html |-> <<"<", "w", "y", ">">>, parks |-> <<<<"/", "a", "/">>, <<"/", "d", "/">>>>]>>

\* the site pages: body, and the elements get_site_instance looks for
SitePages ==
    <<[href |-> <<"/", "a", "/">>, html |-> <<"<", "a", ">">>, name |-> <<"A">>, category |-> <<"P", "a", "r", "k">>,
       locality |-> Found(<<"E", "l", "y">>), region |-> Found(<<"M", "I">>),
       postalCode |-> Found(<<"4", "9", "9", "3", "1">>), tel |-> Found(<<"9", "1", "1">>)],
      [href |-> <<"/", "b", "/">>, html |-> <<"<", "b", ">">>, name |-> <<"B">>, category |-> <<>>,
       locality |-> Missing, region |-> Missing,
       postalCode |-> Missing, tel |-> Missing],
      [href |-> <<"/", "c", "/">>, html |-> <<"<", "c", ">">>, name |-> <<"C">>, category |-> <<"P", "a", "r", "k">>,
       locality |-> Found(<<"E", "l", "y">>), region |-> Found(<<"M", "I">>),
       postalCode |-> Found(<<" ">>), tel |-> Found(<<"9", "1", "1">>)],
      [href |-> <<"/", "d", "/">>, html |-> <<"<", "d", ">">>, name |-> <<"D">>, category |-> <<"P", "a", "r", "k">>,
       locality |-> Found(<<"E", "l", "y">>), region |-> Found(<<"M", "I">>),
       postalCode |-> Found(<<"8", "2", "1", "9", "0">>), tel |-> Found(<<"9", "1", "1">>)]>>

\* line 64: "https://www.nps.gov" + href
StateUrl(href) == Nps \o href

\* line 123: f'https://www.nps.gov/{href}/index.htm'
SiteUrl(href) == Nps \o <<"/">> \o href \o <<"/", "i", "n", "d", "e", "x", ".", "h", "t", "m">>

\* response.text of requests.get(url)
Serve(url) ==
    IF url = IndexUrl THEN IndexHtml
    ELSE IF \E i \in 1..Len(StatePages) : StateUrl(StatePages[i].href) = url
    THEN StatePages[CHOOSE i \in 1..Len(StatePages) : StateUrl(StatePages[i].href) = url].html
    ELSE SitePages[CHOOSE i \in 1..Len(SitePages) : SiteUrl(SitePages[i].href) = url].html

\* what BeautifulSoup finds in the body of a state page and of a site page
StatePageOf(html) == StatePages[CHOOSE i \in 1..Len(StatePages) : StatePages[i].html = html]
SitePageOf(html) == SitePages[CHOOSE i \in 1..Len(SitePages) : SitePages[i].html = html]

\* str.lower() and str.strip()
LowerChar(c) ==
    CASE c = "M" -> "m" [] c = "W" -> "w" [] c = "E" -> "e" [] c = "B" -> "b" [] OTHER -> c

Lower(str) == [i \in 1..Len(str) |-> LowerChar(str[i])]

RECURSIVE Strip(_)
Strip(str) ==
    IF str = <<>> THEN str
    ELSE IF IsWs(str[1]) THEN Strip(Tail(str))
    ELSE IF IsWs(str[Len(str)]) THEN Strip(SubSeq(str, 1, Len(str) - 1))
    ELSE str

\* the character U+00B2 (superscript two) is written "^2"
Superscript2 == "^2"

\* str.isdigit(): not empty, and every character has the Unicode digit
\* property, which the superscripts have too
isdigit(str) == Len(str) > 0 /\ \A i \in 1..Len(str) : IsDigit(str[i]) \/ str[i] = Superscript2

\* int(str) for a str that passed isdigit(): [ok, n]; ok is FALSE where int
\* raises ValueError, as it does for characters that are no decimal digits
RECURSIVE DecimalValue(_, _, _)
DecimalValue(str, i, n) ==
    IF i > Len(str) THEN n ELSE DecimalValue(str, i + 1, 10 * n + DigitVal(str[i]))

int(str) ==
    IF Len(str) > 0 /\ \A i \in 1..Len(str) : IsDigit(str[i])
    THEN [ok |-> TRUE, n |-> DecimalValue(str, 1, 0)]
    ELSE [ok |-> FALSE, n |-> 0]

-----------------------------------------------------------------------------
(* The cache functions as the session calls them: each call as a whole, on *)
(* the module's CACHE.  c is [cache, file, net, slept, reqs, saves, ok,    *)
(* failAt]: reqs the requests issued in this loop iteration, ok FALSE once *)
(* an exception is on its way up, failAt which request of the iteration    *)
(* the network fails (0: none).                                            *)

PageRequest(url) == [kind |-> "page", url |-> url, params |-> EmptyDict]
ApiRequest(baseurl, params) == [kind |-> "api", url |-> baseurl, params |-> params]

Fails(c) == Len(c.reqs) + 1 = c.failAt

\* make_url_request_using_cache(url, CACHE), lines 205-214
url_request(c, url) ==
    IF ~c.ok \/ Has(c.cache, url) THEN c
    ELSE IF Fails(c)
    THEN [c EXCEPT !.slept = @ + 1, !.net = @ + 1, !.reqs = Append(@, PageRequest(url)),
                   !.ok = FALSE]
    ELSE LET filled == DictSet(c.cache, url, JStr(Serve(url)))
         IN  [c EXCEPT !.slept = @ + 1, !.net = @ + 1, !.reqs = Append(@, PageRequest(url)),
                       !.cache = filled, !.file = save_cache(c.file, filled),
                       !.saves = @ + 1]

\* an API path that never looks into the cache
api_request_uncached(c, baseurl, params, resp) ==
    LET unique_key == construct_unique_key(baseurl, params)
        filled == DictSet(c.cache, unique_key, resp)
    IN  IF ~c.ok THEN c
        ELSE [c EXCEPT !.net = @ + 1, !.reqs = Append(@, ApiRequest(baseurl, params)),
                       !.cache = filled, !.file = save_cache(c.file, filled),
                       !.saves = @ + 1]

\* make_api_request_using_cache(baseurl, params, CACHE), lines 257-264;
\* resp is what the API answers if it is asked
api_request(c, baseurl, params, resp) ==
    LET unique_key == construct_unique_key(baseurl, params)
        filled == DictSet(c.cache, unique_key, resp)
    IN  IF ~c.ok \/ Has(c.cache, unique_key) THEN c
        ELSE IF Fails(c)
        THEN [c EXCEPT !.net = @ + 1, !.reqs = Append(@, ApiRequest(baseurl, params)),
                       !.ok = FALSE]
        ELSE [c EXCEPT !.net = @ + 1, !.reqs = Append(@, ApiRequest(baseurl, params)),
                       !.cache = filled, !.file = save_cache(c.file, filled),
                       !.saves = @ + 1]

\* lines 35-40
NationalSite(category, name, address, zipcode, phone) ==
    [category |-> category, name |-> name, address |-> address, zipcode |-> zipcode,
     phone |-> phone]

NoZipcode == <<"n", "o", " ", "z", "i", "p", "c", "o", "d", "e">>

\* lines 82-101, on the body of the site page
get_site_instance(html) ==
    LET page == SitePageOf(html)
    IN  NationalSite(page.category, page.name,
            IF page.locality.has /\ page.region.has
            THEN page.locality.text \o <<",", " ">> \o page.region.text
            ELSE <<"n", "o", " ", "a", "d", "d", "r", "e", "s", "s">>,
            IF page.postalCode.has THEN Strip(page.postalCode.text) ELSE NoZipcode,
            IF page.tel.has THEN Strip(page.tel.text) ELSE <<"n", "o", " ", "p", "h", "o", "n", "e">>)

\* lines 121-124: the parks from the i-th on; r is [c, sites]
RECURSIVE SitesLoop(_, _, _)
SitesLoop(r, parks, i) ==
    IF i > Len(parks) \/ ~r.c.ok THEN r
    ELSE LET url == SiteUrl(parks[i])
             c2 == url_request(r.c, url)
         IN  SitesLoop([c |-> c2,
                        sites |-> IF c2.ok
                                  THEN Append(r.sites, get_site_instance(Get(c2.cache, url).s))
                                  ELSE r.sites],
                       parks, i + 1)

\* lines 117-125
get_sites_for_state(c, state_url) ==
    LET c1 == url_request(c, state_url)
    IN  IF ~c1.ok THEN [c |-> c1, sites |-> <<>>]
        ELSE SitesLoop([c |-> c1, sites |-> <<>>],
                       StatePageOf(Get(c1.cache, state_url).s).parks, 1)

\* lines 63-64: the dict from the menu entries, the first i - 1 done
RECURSIVE MenuLoop(_, _)
MenuLoop(i, d) ==
    IF i > Len(IndexMenu) THEN d
    ELSE MenuLoop(i + 1, DictSet(d, Lower(IndexMenu[i].text), JStr(StateUrl(IndexMenu[i].href))))

\* lines 141-148
NearbyParams(site_object) ==
    JDict(<<KeyParam, <<"o", "r", "i", "g", "i", "n">>, <<"r", "a", "d", "i", "u", "s">>, <<"m", "a", "x", "M", "a", "t", "c", "h", "e", "s">>, <<"a", "m", "b", "i", "g", "u", "i", "t", "i", "e", "s">>, <<"o", "u", "t", "F", "o", "r", "m", "a", "t">>>>,
          <<JStr(ApiKey), JStr(site_object.zipcode), JInt(10), JInt(10),
            JStr(<<"i", "g", "n", "o", "r", "e">>), JStr(<<"j", "s", "o", "n">>)>>)

SearchResults == <<"s", "e", "a", "r", "c", "h", "R", "e", "s", "u", "l", "t", "s">>

\* decoded bodies the places API answers with: a sequence of result records
PlaceResponses ==
    {JDict(<<SearchResults>>, <<JList(<<>>)>>),
     JDict(<<SearchResults>>,
           <<JList(<<JDict(<<<<"n", "a", "m", "e">>, <<"f", "i", "e", "l", "d", "s">>>>, <<JStr(<<"B">>), EmptyDict>>)>>)>>)}

\* a zipcode only the first test looks for
ZipUnusableSentinelOnly(zipcode) == zipcode = NoZipcode

\* line 354
ZipUnusable(zipcode) == zipcode = NoZipcode \/ zipcode = <<>>

-----------------------------------------------------------------------------
(* __main__: one action per pass through the loop *)

\* most requests of one pass the network may fail (one state page and its parks)
MaxFailAt == 2

Exit == <<"e", "x", "i", "t">>
Back == <<"b", "a", "c", "k">>

\* what the user may type at a prompt
Inputs ==
    {Exit, <<"E", "x", "i", "t">>, Back, <<>>, <<"m", "i">>, <<"M", "i">>, <<"w", "y">>, <<"z", "z">>,
     <<"0">>, <<"1">>, <<"2">>, <<"3">>, <<"5">>, <<"0", "1">>, <<"x">>, <<Superscript2>>}

\* cache.json as an earlier run left it: nothing, or the places of one zipcode
SessionFiles ==
    {NoFile}
    \cup {save_cache(NoFile,
              JDict(<<construct_unique_key(PlacesBase,
                          NearbyParams(NationalSite(<<>>, <<>>, <<>>, <<"4", "9", "9", "3", "1">>, <<>>)))>>,
                    <<resp>>)) : resp \in PlaceResponses}

InitSession ==
    /\ file \in SessionFiles
    /\ stores = StartedStores(file)
    /\ pc = "idle"
    /\ call = NoCall
    /\ last = NoLast
    /\ net = 0
    /\ slept = 0
    /\ returned = {}
    /\ durable = {}
    /\ kin = <<>>
    /\ kout = <<>>
    /\ sess = [NoSess EXCEPT !.state = "boot"]

\* the cache as a pass finds it
Entering(failAt) ==
    [cache |-> stores["CACHE"], file |-> file, net |-> net, slept |-> slept,
     reqs |-> <<>>, saves |-> 0, ok |-> TRUE, failAt |-> failAt]

\* what the pass leaves of the cache
Leaving(c) ==
    /\ stores' = [stores EXCEPT !["CACHE"] = c.cache]
    /\ file' = c.file
    /\ net' = c.net
    /\ slept' = c.slept

\* the session after a pass that read input, printed out and ended in state
Passed(input, state, out, c) ==
    [sess EXCEPT !.state = IF c.ok THEN state ELSE "died",
                 !.input = input,
                 !.out = IF c.ok THEN out ELSE "traceback",
                 !.header = <<>>,
                 !.reqs = c.reqs,
                 !.saves = c.saves,
                 !.failed = ~c.ok,
                 !.before = [state |-> sess.state, sites |-> sess.sites,
                             picked |-> sess.picked,
                             keys |-> {stores["CACHE"].keys[i] : i \in 1..Len(stores["CACHE"].keys)}]]

\* line 325: build_state_url_dict() (lines 59-65)
Boot(failAt) ==
    LET c == url_request(Entering(failAt), IndexUrl)
    IN  /\ sess.state = "boot"
        /\ Leaving(c)
        /\ sess' = [Passed(<<>>, "pick_state", "none", c)
                       EXCEPT !.dict = IF c.ok THEN MenuLoop(1, EmptyDict) ELSE EmptyDict]
        /\ UNCHANGED <<pc, call, last, returned, durable, kin, kout>>

\* lines 329-340; failAt is drawn where the pass reaches the network
PickState(typed) ==
    LET user_input == Lower(typed)
    IN  /\ sess.state = "pick_state"
        /\ IF user_input = Exit
           THEN /\ sess' = Passed(typed, "bye", "bye", Entering(0))
                /\ UNCHANGED <<file, stores, net, slept>>
           ELSE IF ~Has(sess.dict, user_input)
           THEN /\ sess' = Passed(typed, "pick_state", "error_state", Entering(0))
                /\ UNCHANGED <<file, stores, net, slept>>
           ELSE \E failAt \in 0..MaxFailAt :
                LET r == get_sites_for_state(Entering(failAt), Get(sess.dict, user_input).s)
                IN  /\ Leaving(r.c)
                    /\ sess' = [Passed(typed, "pick_site", "sites", r.c)
                                   EXCEPT !.sites = IF r.c.ok THEN r.sites ELSE sess.sites]
        /\ UNCHANGED <<pc, call, last, returned, durable, kin, kout>>

\* lines 341-360; resp is what the places API answers if it is asked
PickSite(user_input) ==
    LET number == int(user_input)
        target_site == sess.sites[number.n]
        unique_key == construct_unique_key(PlacesBase, NearbyParams(target_site))
    IN  /\ sess.state = "pick_site"
        /\ IF user_input = Exit
           THEN /\ sess' = Passed(user_input, "bye", "bye", Entering(0))
                /\ UNCHANGED <<file, stores, net, slept>>
           ELSE IF user_input = Back
           THEN /\ sess' = Passed(user_input, "pick_state", "none", Entering(0))
                /\ UNCHANGED <<file, stores, net, slept>>
           ELSE IF ~isdigit(user_input)
           THEN /\ sess' = Passed(user_input, "pick_site", "error_input", Entering(0))
                /\ UNCHANGED <<file, stores, net, slept>>
           ELSE IF ~number.ok
           THEN \* int(user_input) raises ValueError; nothing catches it
                /\ sess' = Passed(user_input, "died", "traceback", Entering(0))
                /\ UNCHANGED <<file, stores, net, slept>>
           ELSE IF number.n <= 0 \/ number.n > Len(sess.sites)
           THEN /\ sess' = Passed(user_input, "pick_site", "error_input", Entering(0))
                /\ UNCHANGED <<file, stores, net, slept>>
           ELSE IF ZipUnusable(target_site.zipcode)
           THEN /\ sess' = Passed(user_input, "pick_site", "error_zip", Entering(0))
                /\ UNCHANGED <<file, stores, net, slept>>
           ELSE \E resp \in PlaceResponses, failAt \in 0..MaxFailAt :
                LET c == api_request(Entering(failAt), PlacesBase, NearbyParams(target_site),
                                     resp)
                    listed == c.ok /\ Has(Get(c.cache, unique_key), SearchResults)
                IN  /\ Leaving(c)
                    \* list_places prints the header (lines 303-306), then reads
                    \* places["searchResults"] (line 307)
                    /\ sess' = [Passed(user_input, IF listed THEN "pick_site" ELSE "died",
                                       IF listed THEN "places" ELSE "traceback", c)
                                   EXCEPT !.header = IF c.ok THEN target_site.name ELSE <<>>,
                                          !.picked = IF listed THEN @ \cup {target_site.name}
                                                     ELSE @]
        /\ UNCHANGED <<pc, call, last, returned, durable, kin, kout>>

NextSession ==
    \/ \E failAt \in 0..MaxFailAt : Boot(failAt)
    \/ \E typed \in Inputs : PickState(typed)
    \/ \E typed \in Inputs : PickSite(typed)

SpecSession == InitSession /\ [][NextSession]_vars

-----------------------------------------------------------------------------
(* Claims about the session *)

\* the last pass read a decimal number between 1 and the length of the list
\* at the site prompt
ValidPick ==
    /\ sess.before.state = "pick_site"
    /\ Len(sess.input) > 0
    /\ \A i \in 1..Len(sess.input) : IsDigit(sess.input[i])
    /\ DecimalValue(sess.input, 1, 0) \in 1..Len(sess.before.sites)

ChosenSite == sess.before.sites[DecimalValue(sess.input, 1, 0)]

\* ... of a site with a usable postal code
UsablePick == ValidPick /\ ChosenSite.zipcode # <<"n", "o", " ", "z", "i", "p", "c", "o", "d", "e">> /\ ChosenSite.zipcode # <<>>

\* the fingerprint of the nearby-places request for postal code z
ExpectedKey(z) ==
    PlacesBase \o <<"_", "o", "r", "i", "g", "i", "n", "_">> \o z
        \o <<"_", "r", "a", "d", "i", "u", "s", "_", "1", "0", "_", "m", "a", "x", "M", "a", "t", "c", "h", "e", "s", "_", "1", "0", "_", "a", "m", "b", "i", "g", "u", "i", "t", "i", "e", "s", "_", "i", "g", "n", "o", "r", "e", "_", "o", "u", "t", "F", "o", "r", "m", "a", "t", "_", "j", "s", "o", "n">>

CacheKeys == {stores["CACHE"].keys[i] : i \in 1..Len(stores["CACHE"].keys)}

\* the one request is the nearby-places request for postal code z
IsPlacesRequest(req, z) ==
    /\ req.kind = "api"
    /\ req.url = PlacesBase
    /\ Get(req.params, <<"o", "r", "i", "g", "i", "n">>) = JStr(z)
    /\ Get(req.params, <<"r", "a", "d", "i", "u", "s">>) = JInt(10)
    /\ Get(req.params, <<"m", "a", "x", "M", "a", "t", "c", "h", "e", "s">>) = JInt(10)
    /\ Get(req.params, <<"a", "m", "b", "i", "g", "u", "i", "t", "i", "e", "s">>) = JStr(<<"i", "g", "n", "o", "r", "e">>)
    /\ Get(req.params, <<"o", "u", "t", "F", "o", "r", "m", "a", "t">>) = JStr(<<"j", "s", "o", "n">>)

\* C12 as stated: a valid pick of a site with a usable postal code Z, no fetch
\* failing, issues exactly one nearby-places request, stored under the
\* fingerprint of Z, unless the same site was picked before in this session,
\* and then none; it prints the header and stays at the site prompt.
C12_PickIssuesOneRequest ==
    (UsablePick /\ ~sess.failed)
        => /\ IF ChosenSite.name \in sess.before.picked THEN sess.reqs = <<>>
              ELSE Len(sess.reqs) = 1 /\ IsPlacesRequest(sess.reqs[1], ChosenSite.zipcode)
           /\ ExpectedKey(ChosenSite.zipcode) \in CacheKeys
           /\ sess.header = ChosenSite.name
           /\ sess.state = "pick_site"

\* C12 amended: the pick issues exactly one nearby-places request if the
\* fingerprint of Z is not in the cache, which an earlier run may have filled,
\* and none if it is; after it the fingerprint is in the cache, the header is
\* printed and the session is at the site prompt.
C12_PickIssuesRequestUnlessCached ==
    (UsablePick /\ ~sess.failed)
        => /\ IF ExpectedKey(ChosenSite.zipcode) \in sess.before.keys
              THEN sess.reqs = <<>> /\ sess.saves = 0
              ELSE /\ Len(sess.reqs) = 1
                   /\ IsPlacesRequest(sess.reqs[1], ChosenSite.zipcode)
                   /\ sess.saves = 1
           /\ ExpectedKey(ChosenSite.zipcode) \in CacheKeys
           /\ sess.header = ChosenSite.name
           /\ sess.state = "pick_site"

C12_Witness ==
    /\ UsablePick
    /\ ~sess.failed
    /\ ExpectedKey(ChosenSite.zipcode) \notin sess.before.keys
    /\ Len(sess.reqs) = 1
    /\ sess.out = "places"
    /\ sess.state = "pick_site"

\* C13: at the site prompt every input that is not "exit", not "back" and not
\* a decimal number between 1 and the length of the list prints the input
\* error, keeps the prompt and the list, and makes no request and no save.
C13_InvalidInputRejected ==
    (sess.before.state = "pick_site" /\ sess.input \notin {Exit, Back} /\ ~ValidPick)
        => /\ sess.out = "error_input"
           /\ sess.state = "pick_site"
           /\ sess.sites = sess.before.sites
           /\ sess.reqs = <<>>
           /\ sess.saves = 0
           /\ CacheKeys = sess.before.keys

\* C14: a valid pick of a site whose postal code is "no zipcode" or empty
\* prints the address error, makes no request and no save, and keeps the
\* site prompt.
C14_UnusableZipRejected ==
    (ValidPick /\ ~UsablePick)
        => /\ sess.out = "error_zip"
           /\ sess.reqs = <<>>
           /\ sess.saves = 0
           /\ CacheKeys = sess.before.keys
           /\ sess.state = "pick_site"

C14_Witness ==
    /\ ValidPick
    /\ ChosenSite.zipcode = <<>>
    /\ sess.out = "error_zip"
    /\ sess.state = "pick_site"

\* "exit" was read at the prompt of the last pass
ExitEntered ==
    \/ sess.before.state = "pick_state" /\ Lower(sess.input) = Exit
    \/ sess.before.state = "pick_site" /\ sess.input = Exit

\* C15: the state prompt leads to the site prompt only on a known state name
\* and stays on an unknown one; the site prompt leads to the state prompt
\* only on "back"; "exit" at either prompt ends the session with no request;
\* and the session has ended only if "exit" was entered or a fetch failed.
C15_TwoStateTable ==
    /\ (sess.before.state = "pick_state" /\ sess.state = "pick_site")
           => Has(sess.dict, Lower(sess.input))
    /\ (sess.before.state = "pick_state" /\ ~ExitEntered /\ ~Has(sess.dict, Lower(sess.input)))
           => sess.state = "pick_state"
    /\ (sess.before.state = "pick_site" /\ sess.state = "pick_state") => sess.input = Back
    /\ ExitEntered => (sess.state = "bye" /\ sess.reqs = <<>>)
    /\ sess.state \in {"bye", "died"} => (ExitEntered \/ sess.failed)

====
